---- MODULE Spec2Model ----
(***************************************************************************)
(* Model of webpack.config.js: the build-mode flags derived from           *)
(* process.env.NODE_ENV, the output naming function fileName, the loader   *)
(* list jsLoaders, the exported configuration object, and the way the      *)
(* configuration's rule matchers select a rule for a resource.             *)
(*                                                                         *)
(* JavaScript strings that are only compared or concatenated are TLA+      *)
(* strings.  Resource paths, which the regular expressions inspect         *)
(* character by character, are sequences of one-character strings.         *)
(* JavaScript values whose type matters (undefined / string / boolean)     *)
(* are records [type, value].                                              *)
(***************************************************************************)
EXTENDS Integers, Sequences, FiniteSets, TLC

VARIABLES NODE_ENV, buildHash, pc, isProd, isDev, exports, resource, matched

vars == <<NODE_ENV, buildHash, pc, isProd, isDev, exports, resource, matched>>

-----------------------------------------------------------------------------
(* Bounds of the model *)

\* longest generated build hash
MaxHashLen == 2

\* longest generated file extension (characters after the last dot)
MaxExtLen == 4

-----------------------------------------------------------------------------
(* JavaScript values *)

JsUndefined == [type |-> "undefined", value |-> ""]

JsString(s) == [type |-> "string", value |-> s]

JsFalse == [type |-> "boolean", value |-> "false"]

\* a === b : same type and same value, no coercion
StrictEquals(a, b) == a.type = b.type /\ a.value = b.value

-----------------------------------------------------------------------------
(* Inputs *)

\* values process.env.NODE_ENV can have: absent, or any string
EnvSignals ==
    {JsUndefined} \cup
    {JsString(s) : s \in {"production", "Production", "PRODUCTION", "prod",
                          "", "development", "production ", "test"}}

HashChars == {"a", "7"}

RECURSIVE HashesOfLen(_)
HashesOfLen(n) ==
    IF n = 0 THEN {""}
    ELSE {h \o c : h \in HashesOfLen(n - 1), c \in HashChars}

\* the hash the build executor computes for one build, when it has one
BuildHashes ==
    {JsUndefined} \cup
    {JsString(h) : h \in {"a1b2c3"} \cup UNION {HashesOfLen(k) : k \in 1..MaxHashLen}}

ExtChars == {"s", "a", "c", "j"}

SeqsUpTo(S, n) == UNION {[1..k -> S] : k \in 0..n}

NodeModulesDir == <<"n","o","d","e","_","m","o","d","u","l","e","s","/">>

Stems == {<<>>, <<"a">>, NodeModulesDir \o <<"a">>}

ExplicitResources ==
    { <<"A",".","S","A","S","S">>,
      <<"a",".","S","c","s","s">>,
      <<"a",".","C","S","S">>,
      <<"a",".","c","s","s">>,
      <<"a",".","J","S">>,
      <<"a",".","j","s","x">>,
      <<"a",".","s","a","s","s",".","j","s">>,
      <<"a",".","j","s",".","s","c","s","s">>,
      <<"a","s","a","s","s">>,
      <<"i","n","d","e","x",".","h","t","m","l">>,
      NodeModulesDir \o <<"a",".","S","c","s","s">> }

\* resource paths the build executor may meet
Resources ==
    ExplicitResources \cup
    {stem \o <<".">> \o e : stem \in Stems, e \in SeqsUpTo(ExtChars, MaxExtLen)}

-----------------------------------------------------------------------------
(* Regular expressions *)

UpperChars == <<"A","B","C","D","E","F","G","H","I","J","K","L","M",
                "N","O","P","Q","R","S","T","U","V","W","X","Y","Z">>

LowerChars == <<"a","b","c","d","e","f","g","h","i","j","k","l","m",
                "n","o","p","q","r","s","t","u","v","w","x","y","z">>

\* case folding of one character, as the i flag applies it to both sides
Canonicalize(c) ==
    IF \E k \in 1..Len(UpperChars) : UpperChars[k] = c
    THEN LowerChars[CHOOSE k \in 1..Len(UpperChars) : UpperChars[k] = c]
    ELSE c

\* the atoms of the pattern match the characters of f starting at position i
MatchAt(re, f, i) ==
    /\ i >= 1
    /\ i + Len(re.atoms) - 1 <= Len(f)
    /\ \A k \in 1..Len(re.atoms) :
          LET ch == f[i + k - 1]
          IN  IF re.ignoreCase
              THEN Canonicalize(ch) \in {Canonicalize(a) : a \in re.atoms[k]}
              ELSE ch \in re.atoms[k]

\* RegExp.prototype.test for a pattern that is a sequence of character
\* classes, optionally anchored at the end of the input ($)
RegExpTest(re, f) ==
    IF re.anchorEnd
    THEN MatchAt(re, f, Len(f) - Len(re.atoms) + 1)
    ELSE \E i \in 1..Len(f) : MatchAt(re, f, i)

\* /\.s[ac]ss$/i
StyleTest ==
    [atoms |-> <<{"."}, {"s"}, {"a", "c"}, {"s"}, {"s"}>>,
     anchorEnd |-> TRUE, ignoreCase |-> TRUE]

\* /\.js$/
ScriptTest ==
    [atoms |-> <<{"."}, {"j"}, {"s"}>>,
     anchorEnd |-> TRUE, ignoreCase |-> FALSE]

\* /node_modules/
NodeModulesExclude ==
    [atoms |-> <<{"n"},{"o"},{"d"},{"e"},{"_"},{"m"},{"o"},{"d"},{"u"},{"l"},{"e"},{"s"}>>,
     anchorEnd |-> FALSE, ignoreCase |-> FALSE]

-----------------------------------------------------------------------------
(* The module's top-level definitions *)

isProdValue_truthy == NODE_ENV.type = "string" /\ NODE_ENV.value # ""

\* process.env.NODE_ENV === "production"
isProdValue == StrictEquals(NODE_ENV, JsString("production"))

fileName_neverHashed(ext) == "bundle." \o ext

fileName_alwaysHashed(ext) == "bundle.[hash]." \o ext

fileName_hashedInDev(ext) ==
    IF isProd THEN "bundle." \o ext ELSE "bundle.[hash]." \o ext

\* ext => isDev ? `bundle.${ext}` : `bundle.[hash].${ext}`
fileName(ext) ==
    IF isDev THEN "bundle." \o ext ELSE "bundle.[hash]." \o ext

BabelLoader ==
    [loader |-> "babel-loader", options |-> [presets |-> <<"@babel/preset-env">>]]

jsLoaders_alwaysLint == Append(<<BabelLoader>>, "eslint-loader")

\* the loaders array, with eslint-loader pushed when isDev
jsLoaders ==
    LET loaders == <<BabelLoader>>
    IN  IF isDev THEN Append(loaders, "eslint-loader") ELSE loaders

dirname == "/excel-course"

\* path.resolve(__dirname, p) for a relative p
PathResolve(dir, p) == dir \o "/" \o p

HTMLWebpackPluginOptions_minifyInDev ==
    [template |-> "index.html",
     minify |-> [removeComments |-> isDev, collapseWhitespace |-> isProd]]

HTMLWebpackPluginOptions ==
    [template |-> "index.html",
     minify |-> [removeComments |-> isProd, collapseWhitespace |-> isProd]]

CleanPlugin == [plugin |-> "CleanWebpackPlugin", options |-> <<>>]

HTMLPlugin == [plugin |-> "HTMLWebpackPlugin", options |-> HTMLWebpackPluginOptions]

CopyPluginInstance ==
    [plugin |-> "CopyPlugin",
     options |-> [patterns |-> << [from |-> PathResolve(dirname, "src/favicon.ico"),
                                   to |-> PathResolve(dirname, "dist")] >>]]

MiniCssPlugin ==
    [plugin |-> "MiniCssExtractPlugin", options |-> [filename |-> fileName("css")]]

plugins_cleanLast == <<HTMLPlugin, CopyPluginInstance, MiniCssPlugin, CleanPlugin>>

plugins == <<CleanPlugin, HTMLPlugin, CopyPluginInstance, MiniCssPlugin>>

devtool_always == JsString("source-map")

devtool == IF isDev THEN JsString("source-map") ELSE JsFalse

StyleRule ==
    [test |-> StyleTest,
     use |-> << [loader |-> "MiniCssExtractPlugin.loader",
                 options |-> [hmr |-> isDev, reloadAll |-> TRUE]],
                "css-loader",
                "sass-loader" >>]

ScriptRule ==
    [test |-> ScriptTest, exclude |-> NodeModulesExclude, use |-> jsLoaders]

\* the object assigned to module.exports
ModuleExports ==
    [context |-> PathResolve(dirname, "src"),
     mode |-> "development",
     entry |-> <<"@babel/polyfill", "./index.js">>,
     output |-> [filename |-> fileName("js"), path |-> PathResolve(dirname, "dist")],
     resolve |-> [extensions |-> <<".js">>,
                  alias |-> ("@" :> PathResolve(dirname, "src") @@
                            "@core" :> PathResolve(dirname, "src/core"))],
     devtool |-> devtool,
     devServer |-> [port |-> 3000, hot |-> isDev],
     plugins |-> plugins,
     module |-> [rules |-> <<StyleRule, ScriptRule>>]]

\* a rule applies to f when its test matches and its exclude, if any, does not
RuleMatches(rule, f) ==
    /\ RegExpTest(rule.test, f)
    /\ "exclude" \in DOMAIN rule => ~RegExpTest(rule.exclude, f)

\* index of the first rule, in declaration order, that applies to f; 0 if none
FirstMatch(rules, f) ==
    IF \E i \in 1..Len(rules) : RuleMatches(rules[i], f)
    THEN CHOOSE i \in 1..Len(rules) :
            /\ RuleMatches(rules[i], f)
            /\ \A j \in 1..(i - 1) : ~RuleMatches(rules[j], f)
    ELSE 0

-----------------------------------------------------------------------------
(* State machine *)

Init ==
    /\ NODE_ENV \in EnvSignals
    /\ buildHash \in BuildHashes
    /\ pc = "start"
    /\ isProd = FALSE
    /\ isDev = FALSE
    /\ exports = <<>>
    /\ resource = <<>>
    /\ matched = 0

\* lines 9-10: the two flags are computed from the environment
ResolveMode ==
    /\ pc = "start"
    /\ isProd' = isProdValue
    /\ isDev' = ~isProd'
    /\ pc' = "resolved"
    /\ UNCHANGED <<NODE_ENV, buildHash, exports, resource, matched>>

\* lines 37-121: the configuration object is built and exported
Assemble ==
    /\ pc = "resolved"
    /\ exports' = ModuleExports
    /\ pc' = "assembled"
    /\ UNCHANGED <<NODE_ENV, buildHash, isProd, isDev, resource, matched>>

\* the build executor scans module.rules for a resource; resolutions are
\* independent of one another, so one per behaviour covers them all
ResolveRule ==
    /\ pc = "assembled"
    /\ \E f \in Resources :
          /\ resource' = f
          /\ matched' = FirstMatch(exports.module.rules, f)
    /\ pc' = "matched"
    /\ UNCHANGED <<NODE_ENV, buildHash, isProd, isDev, exports>>

Next == ResolveMode \/ Assemble \/ ResolveRule

Spec == Init /\ [][Next]_vars

-----------------------------------------------------------------------------
(* Properties *)

\* the configuration object has been exported
Assembled == pc \in {"assembled", "matched"}

ScriptName == exports.output.filename

StyleName == exports.plugins[4].options.filename

\* f ends in the characters of suffix, compared without regard to case
EndsWithIgnoreCase(f, suffix) ==
    /\ Len(f) >= Len(suffix)
    /\ \A k \in 1..Len(suffix) :
          Canonicalize(f[Len(f) - Len(suffix) + k]) = Canonicalize(suffix[k])

\* C1: once the flags are computed, isProd is true exactly when NODE_ENV is
\* the string "production", false for every other string and for an absent
\* NODE_ENV, and isDev is the negation of isProd.
C1_ResolveModeTotal ==
    pc # "start" =>
        /\ NODE_ENV = JsString("production") => isProd
        /\ NODE_ENV # JsString("production") => ~isProd
        /\ NODE_ENV = JsUndefined => ~isProd
        /\ isDev = ~isProd

C1_Witness == pc # "start" /\ NODE_ENV = JsUndefined /\ isDev /\ ~isProd

\* C2 (as claimed): in production with a build hash h available, the script
\* name is "bundle.<h>.js" and the style name is "bundle.<h>.css".
C2_NameEmbedsSuppliedHash ==
    (Assembled /\ isProd /\ buildHash.type = "string") =>
        /\ ScriptName = "bundle." \o buildHash.value \o ".js"
        /\ StyleName = "bundle." \o buildHash.value \o ".css"

\* C2 (amended): in production, whatever build hash is available, the script
\* name is the template "bundle.[hash].js" and the style name the template
\* "bundle.[hash].css": the hash segment is the literal placeholder [hash].
C2_NameIsHashTemplate ==
    (Assembled /\ isProd /\ buildHash.type = "string") =>
        /\ ScriptName = "bundle.[hash].js"
        /\ StyleName = "bundle.[hash].css"

C2_Witness ==
    /\ Assembled /\ isProd /\ buildHash = JsString("a1b2c3")
    /\ ScriptName = "bundle.[hash].js"

\* C3 (as claimed): in production with no build hash, no file name is ever
\* returned: the configuration is never assembled.
C3_NoHashAbortsAssembly ==
    (pc # "start" /\ isProd /\ buildHash = JsUndefined) => ~Assembled

\* C3 (amended): in production with no build hash, naming raises nothing:
\* assembly can always proceed, and the assembled configuration carries the
\* template names "bundle.[hash].js" and "bundle.[hash].css".
C3_NoHashStillNamed ==
    (isProd /\ buildHash = JsUndefined) =>
        /\ pc = "resolved" => ENABLED Assemble
        /\ Assembled => /\ ScriptName = "bundle.[hash].js"
                        /\ StyleName = "bundle.[hash].css"

C3_Witness ==
    /\ Assembled /\ isProd /\ buildHash = JsUndefined
    /\ StyleName = "bundle.[hash].css"

\* C4: in development the script name is "bundle.js" and the style name is
\* "bundle.css", with or without a build hash available, and calling
\* fileName again with the same extension returns the same name.
C4_DevNamesUnhashed ==
    (Assembled /\ isDev) =>
        /\ ScriptName = "bundle.js"
        /\ StyleName = "bundle.css"
        /\ fileName("js") = ScriptName
        /\ fileName("css") = StyleName

C4_Witness ==
    /\ Assembled /\ isDev /\ buildHash.type = "string"
    /\ ScriptName = "bundle.js"

\* C5: in both modes the plugin list is exactly clean, template, copy,
\* style extraction, in that order, so the clean plugin is first.
C5_PluginOrder ==
    Assembled =>
        /\ Len(exports.plugins) = 4
        /\ [i \in 1..4 |-> exports.plugins[i].plugin] =
              <<"CleanWebpackPlugin", "HTMLWebpackPlugin",
                "CopyPlugin", "MiniCssExtractPlugin">>

C5_Witness ==
    /\ pc = "matched" /\ isProd
    /\ exports.plugins[1].plugin = "CleanWebpackPlugin"

\* C6: the script rule's steps are [babel, eslint] in development and
\* [babel] in production; the babel step and its preset are the same in both.
C6_LintOnlyInDev ==
    Assembled =>
        LET use == exports.module.rules[2].use
            babel == [loader |-> "babel-loader",
                      options |-> [presets |-> <<"@babel/preset-env">>]]
        IN  /\ use[1] = babel
            /\ isDev => (Len(use) = 2 /\ use[2] = "eslint-loader")
            /\ isProd => Len(use) = 1
            /\ (Len(use) = 2) <=> isDev

C6_Witness ==
    /\ Assembled /\ isDev
    /\ Len(exports.module.rules[2].use) = 2

\* C7: the template plugin's removeComments and collapseWhitespace options
\* are both true in production and both false in development.
C7_MinifyOnlyInProd ==
    Assembled =>
        LET minify == exports.plugins[2].options.minify
        IN  /\ minify.removeComments = isProd
            /\ minify.collapseWhitespace = isProd

C7_Witness ==
    /\ Assembled /\ isProd
    /\ exports.plugins[2].options.minify.removeComments
    /\ exports.plugins[2].options.minify.collapseWhitespace

\* C8: the mode held by the assembled configuration is production when
\* NODE_ENV is "production" and development otherwise, so it agrees with
\* the flag isProd.
C8_ConfigModeFollowsFlag ==
    Assembled =>
        /\ exports.mode = (IF NODE_ENV = JsString("production")
                           THEN "production" ELSE "development")
        /\ (exports.mode = "production") <=> isProd

\* C9: a resource ending in .sass, .scss or .css (in any letter case) is
\* assigned the style rule, a .js resource is not, and the style rule's
\* steps are [extraction, css, sass] in both modes.
C9_StyleRuleCoversCss ==
    pc = "matched" =>
        /\ (\/ EndsWithIgnoreCase(resource, <<".","s","a","s","s">>)
            \/ EndsWithIgnoreCase(resource, <<".","s","c","s","s">>)
            \/ EndsWithIgnoreCase(resource, <<".","c","s","s">>)) => matched = 1
        /\ EndsWithIgnoreCase(resource, <<".","j","s">>) => matched # 1
        /\ LET use == exports.module.rules[1].use
           IN  /\ Len(use) = 3
               /\ use[1].loader = "MiniCssExtractPlugin.loader"
               /\ use[2] = "css-loader"
               /\ use[3] = "sass-loader"

\* C10: every mode-dependent option follows the one flag: lint, source
\* maps, style hot reload and the dev-server hot toggle are on exactly in
\* development; template minification and the [hash] segment of both
\* bundle names are present exactly in production.
C10_ModeCoherence ==
    Assembled =>
        LET use == exports.module.rules[2].use
            minify == exports.plugins[2].options.minify
            lint == Len(use) = 2 /\ use[2] = "eslint-loader"
            sourceMap == exports.devtool = JsString("source-map")
            hmr == exports.module.rules[1].use[1].options.hmr
            hot == exports.devServer.hot
            scriptHashed == ScriptName = "bundle.[hash].js"
            styleHashed == StyleName = "bundle.[hash].css"
        IN  /\ isDev = ~isProd
            /\ isProd = (NODE_ENV = JsString("production"))
            /\ lint = isDev /\ sourceMap = isDev /\ hmr = isDev /\ hot = isDev
            /\ ~sourceMap => exports.devtool = JsFalse
            /\ minify.removeComments = isProd /\ minify.collapseWhitespace = isProd
            /\ scriptHashed = isProd /\ styleHashed = isProd
            /\ ~scriptHashed => ScriptName = "bundle.js"
            /\ ~styleHashed => StyleName = "bundle.css"

C10_Witness ==
    /\ Assembled /\ isProd
    /\ exports.devtool = JsFalse /\ ~exports.devServer.hot
    /\ ScriptName = "bundle.[hash].js" /\ StyleName = "bundle.[hash].css"

====
